---- MODULE Spec2Model ----
(***************************************************************************)
(* Model of Mythic_CLI's DockerComposeManager                              *)
(* (src/Mythic_CLI/src/cmd/manager/dockerComposeManager.go).               *)
(*                                                                         *)
(* State: the docker-compose.yml file, the containers known to the docker  *)
(* engine, the InstalledServices folder, the rest of the host (log         *)
(* streams, images, ports, PATH), and a record of the last call (its       *)
(* arguments, its result and the engine/document events it issued).        *)
(*                                                                         *)
(* The file is read through viper.  viper's keys are case-insensitive:     *)
(* ReadInConfig lower-cases every map key at every nesting level           *)
(* (insensitiviseMap), and AllSettings rebuilds the tree from the leaf     *)
(* keys, so a mapping without any leaf is absent from it.  yaml.Marshal    *)
(* keeps keys as they are.  Scalar values are opaque strings.              *)
(***************************************************************************)
EXTENDS Integers, Sequences, FiniteSets, TLC

VARIABLES file, containers, disk, last, lastSet, host

vars == <<file, containers, disk, last, lastSet, host>>

(* ---------------------------- bounds ----------------------------------- *)

MaxLen == 2

(* ---------------------------- universes -------------------------------- *)

\* Names passed to Get/SetServiceConfiguration, and names listed in
\* RemoveServices/StopServices requests.
ServiceNames == {"foo", "Foo"}

ListNames == {"Foo", "mythic_server"}

DefSet ==
  { [restart |-> "v1", networks |-> "v1"],
    [Restart |-> "v2", image |-> "v1"] }

VolumeSet == { [k \in {} |-> "v1"], [foo_volume |-> "v1"] }

NameLists == UNION { [1..n -> ListNames] : n \in 0..MaxLen }

(* ---------------------------- Go helpers ------------------------------- *)

EmptyMap == [k \in {} |-> "v1"]

MapSet(m, k, v) == [x \in (DOMAIN m) \cup {k} |-> IF x = k THEN v ELSE m[x]]

MapDelete(m, k) == [x \in (DOMAIN m) \ {k} |-> m[x]]

Range(s) == { s[i] : i \in DOMAIN s }

ToLower(s) ==
  CASE s = "Foo" -> "foo"
    [] s = "Restart" -> "restart"
    [] OTHER -> s

StringInSlice(value, list) == \E i \in DOMAIN list : list[i] = value

MapOrder(S) == { s \in [1..Cardinality(S) -> S] : Range(s) = S }

MythicPossibleServices == <<"mythic_postgres", "mythic_server">>

(* ---------------------------- viper ------------------------------------ *)

\* insensitiviseMap on one mapping: every key is replaced by its lower-case
\* form; when several keys share a lower-case form, a key that is not
\* already lower-case overwrites the lower-case one.
insensitiviseMap(m) ==
  LET lows == { ToLower(k) : k \in DOMAIN m }
      winners(l) == IF \E k \in DOMAIN m : ToLower(k) = l /\ k # l
                    THEN { k \in DOMAIN m : ToLower(k) = l /\ k # l }
                    ELSE { l }
  IN IF \A l \in lows : Cardinality(winners(l)) = 1
     THEN { [l \in lows |-> m[CHOOSE k \in winners(l) : TRUE]] }
     ELSE { [l \in lows |-> m[w[l]]] :
            w \in { f \in [lows -> DOMAIN m] : \A l \in lows : f[l] \in winners(l) } }

\* The nested mappings (the service definitions) are folded first, then the
\* service names.
RECURSIVE insensitiviseNested(_)
insensitiviseNested(s) ==
  IF DOMAIN s = {} THEN { s }
  ELSE LET n == CHOOSE x \in DOMAIN s : TRUE
       IN { [x \in DOMAIN s |-> IF x = n THEN d ELSE r[x]] :
            r \in insensitiviseNested([x \in (DOMAIN s) \ {n} |-> s[x]]),
            d \in insensitiviseMap(s[n]) }

insensitiviseServices(s) == UNION { insensitiviseMap(t) : t \in insensitiviseNested(s) }

\* viper.ReadInConfig of the file: the set of configurations it can yield.
ReadInConfig(raw) ==
  IF "services" \in DOMAIN raw
  THEN { MapSet(raw, "services", s) : s \in insensitiviseServices(raw["services"]) }
  ELSE { raw }

readInDockerCompose == ReadInConfig(file)

\* viper.AllSettings: the tree rebuilt from the leaf keys.
AllSettings(cfg) ==
  LET svc(s) == [n \in { n \in DOMAIN s : DOMAIN s[n] # {} } |-> s[n]]
      keep == { k \in DOMAIN cfg :
                  CASE k = "services" -> DOMAIN svc(cfg[k]) # {}
                    [] k = "volumes" -> DOMAIN cfg[k] # {}
                    [] OTHER -> TRUE }
  IN [k \in keep |-> IF k = "services" THEN svc(cfg[k]) ELSE cfg[k]]

\* viper.InConfig("services." + name)
InConfig(cfg, name) ==
  "services" \in DOMAIN cfg /\ name \in DOMAIN cfg["services"]

\* The document as the store loads it.
Loaded(raw) == { AllSettings(c) : c \in ReadInConfig(raw) }

ServicesOf(doc) == IF "services" \in DOMAIN doc THEN doc["services"] ELSE EmptyMap

(* ---------------------------- Config Store ----------------------------- *)

ComposeVersion == "2.4"


\* Mutant: the document-level networks key is not deleted.
setDockerComposeDefaultsKeepNetworks(curConfig) ==
  MapSet(curConfig, "version", "2.4")

setDockerComposeDefaultsAndWrite(curConfig) ==
  MapDelete(MapSet(curConfig, "version", ComposeVersion), "networks")

TransientKeys ==
  {"network_mode", "extra_hosts", "build", "networks", "command", "image", "healthcheck"}


\* Mutant: the image key is not deleted.
StripTransientKeepImage(pStruct) ==
  [k \in (DOMAIN pStruct) \ (TransientKeys \ {"image"}) |-> pStruct[k]]

StripTransient(pStruct) ==
  [k \in (DOMAIN pStruct) \ TransientKeys |-> pStruct[k]]

DefaultTemplate(service) ==
  [logging |-> "json-file", restart |-> "always", labels |-> service,
   container_name |-> service, image |-> service]

NoPre == [keys |-> {}, known |-> {}, networks |-> FALSE, root |-> TRUE]

NoCall ==
  [op |-> "none", name |-> "", def |-> EmptyMap, names |-> <<>>, flag |-> FALSE,
   res |-> "ok", wrote |-> FALSE, out |-> EmptyMap, events |-> <<>>, pre |-> NoPre]

Event(kind, name, args) == [kind |-> kind, name |-> name, args |-> args]

NoSet == [valid |-> FALSE, name |-> "", def |-> EmptyMap]

\* The rest of the machine the manager runs on: the log stream the engine
\* serves for a container and where its transport ends a chunk; the Mythic
\* environment (.env), the TCP ports already bound, the images the engine
\* has, the tools on PATH; the services TestPorts has checked and whether
\* the process has exited (log.Fatalf); whether docker-compose.yml exists
\* in the executable's directory (its content is `file`) and can be parsed,
\* whether the working directory is that directory, and what
\* docker-compose.yml is in the working directory when it is another one;
\* the port list the engine reports for a container; the command being
\* run with its pipes; the invocations that run concurrently; whether a
\* pseudo-terminal can be opened for a compose command.
\* A spawned command whose stdout and stderr are drained by two goroutines:
\* the function that spawned it, where that function is (pc), the lines
\* the child has still to be read on each pipe, the child, the two
\* goroutines, whether the pipes are still open on the parent's side, and
\* whether the exit status has been collected.
NoRun ==
  [fn |-> "none", pc |-> "idle", stdout |-> 0, stderr |-> 0, child |-> "none",
   outWorker |-> "none", errWorker |-> "none", pipes |-> "none", collected |-> FALSE,
   exitOk |-> TRUE, read |-> 0]

\* Two invocations of the CLI that run at the same time.  Each is one
\* mutating store operation: where it is (idle, read: it holds the document
\* it has read, done), its arguments, the document it read, whether it has
\* written, and whether the other one wrote after it had read.
Invocations == {1, 2}

NoInv ==
  [pc |-> "idle", op |-> "none", name |-> "", def |-> EmptyMap, names |-> <<>>,
   cfg |-> EmptyMap, wrote |-> FALSE, stale |-> FALSE]

NoEnv ==
  [MYTHIC_SERVER_HOST |-> "mythic_server", MYTHIC_SERVER_PORT |-> 17443,
   POSTGRES_HOST |-> "mythic_postgres", POSTGRES_PORT |-> 5432]

NoHost ==
  [logs |-> <<>>, cut |-> 0, env |-> NoEnv, bound |-> {}, images |-> {},
   path |-> {"docker-compose", "docker"}, tested |-> {}, exited |-> FALSE,
   doc |-> "present", cwdIsExe |-> TRUE, cwdDoc |-> "absent", ports |-> <<>>,
   run |-> NoRun, inv |-> [p \in Invocations |-> NoInv], pty |-> FALSE]

\* What a call found when it started: the declared names as loaded, the
\* labels known to the engine, whether the file had a document-level
\* networks key, whether the install root existed.
PreOf(curConfig, known) ==
  [keys |-> DOMAIN ServicesOf(AllSettings(curConfig)), known |-> known,
   networks |-> "networks" \in DOMAIN curConfig, root |-> TRUE]

GetServiceConfiguration(service) ==
  /\ \E curConfig \in readInDockerCompose :
       last' = [NoCall EXCEPT
                 !.op = "GetServiceConfiguration", !.name = service,
                 !.out = IF InConfig(curConfig, ToLower(service))
                         THEN StripTransient(curConfig["services"][ToLower(service)])
                         ELSE DefaultTemplate(service)]
  /\ UNCHANGED <<file, containers, disk, lastSet, host>>


\* Mutant: the services mapping is replaced by the new entry alone.
SetServiceConfigurationDocAlone(curConfig, service, pStruct) ==
  setDockerComposeDefaultsAndWrite(
    MapSet(AllSettings(curConfig), "services", MapSet(EmptyMap, service, pStruct)))

SetServiceConfigurationDoc(curConfig, service, pStruct) ==
  LET allConfigValues == AllSettings(curConfig)
      withServices == IF "services" \in DOMAIN allConfigValues
                      THEN allConfigValues
                      ELSE MapSet(allConfigValues, "services", EmptyMap)
      allServices == MapSet(withServices["services"], service, pStruct)
  IN setDockerComposeDefaultsAndWrite(MapSet(withServices, "services", allServices))

SetServiceConfiguration(service, pStruct, writeOk) ==
  /\ \E curConfig \in readInDockerCompose :
       /\ file' = IF writeOk THEN SetServiceConfigurationDoc(curConfig, service, pStruct) ELSE file
       /\ last' = [NoCall EXCEPT
                    !.op = "SetServiceConfiguration", !.name = service, !.def = pStruct,
                    !.res = IF writeOk THEN "ok" ELSE "err", !.wrote = writeOk,
                    !.events = <<Event("write", "", <<>>)>>,
                    !.pre = PreOf(curConfig, {})]
  /\ lastSet' = IF writeOk THEN [valid |-> TRUE, name |-> service, def |-> pStruct] ELSE NoSet
  /\ UNCHANGED <<containers, disk, host>>


(* ---------------------------- engine ----------------------------------- *)

\* IsServiceRunning: some container known to the engine carries the label.
IsServiceRunning(known, service) == ToLower(service) \in known

GetAllInstalled3rdPartyServiceNames(cfg) ==
  { service \in DOMAIN ServicesOf(AllSettings(cfg)) :
      ~StringInSlice(service, MythicPossibleServices) }


\* Mutant: the core filter is missing.
GetCurrentMythicServiceNamesAll(cfg) == DOMAIN ServicesOf(AllSettings(cfg))

GetCurrentMythicServiceNames(cfg) ==
  { service \in DOMAIN ServicesOf(AllSettings(cfg)) :
      StringInSlice(service, MythicPossibleServices) }


\* Mutant: the declared names are appended to an explicit request too.
ResolveTargetsAlways(services, dockerComposeContainers, currentMythicServices) ==
  services \o dockerComposeContainers \o currentMythicServices

\* StopServices, lines 340-342: an empty request means everything declared.
ResolveTargets(services, dockerComposeContainers, currentMythicServices) ==
  IF Len(services) = 0
  THEN dockerComposeContainers \o currentMythicServices
  ELSE services

\* StopServices, lines 355-359: the compose command line.
StopServicesArgs(services, deleteImages) ==
  IF deleteImages THEN <<"rm", "-s", "-v", "-f">> \o services
  ELSE <<"stop">> \o services

\* Effect on the engine of a compose command: rm removes the containers of
\* the named services when it succeeds, stop leaves them known.
EngineAfter(known, args, engineOk) ==
  IF engineOk /\ args[1] = "rm"
  THEN known \ { args[i] : i \in 5..Len(args) }
  ELSE known

StopServices(services, deleteImages, engineOk) ==
  /\ \E c1 \in readInDockerCompose, c2 \in readInDockerCompose :
     \E dockerComposeContainers \in MapOrder(GetAllInstalled3rdPartyServiceNames(c1)),
        currentMythicServices \in MapOrder(GetCurrentMythicServiceNames(c2)) :
       LET targets == ResolveTargets(services, dockerComposeContainers, currentMythicServices)
           args == StopServicesArgs(targets, deleteImages)
       IN /\ containers' = EngineAfter(containers, args, engineOk)
          /\ last' = [NoCall EXCEPT
                       !.op = "StopServices", !.names = services, !.flag = deleteImages,
                       !.res = IF engineOk THEN "ok" ELSE "err",
                       !.events = <<Event("engine", "", args)>>,
                       !.pre = PreOf(c1, containers)]
  /\ UNCHANGED <<file, disk, lastSet, host>>


\* Mutant: the listed name is deleted as given, not lower-cased.
RECURSIVE RemoveLoopRaw(_, _, _)
RemoveLoopRaw(services, engineOk, st) ==
  IF st.i > Len(services) THEN st
  ELSE
    LET service == services[st.i]
        running == IsServiceRunning(st.known, service)
        args == StopServicesArgs(ResolveTargets(<<ToLower(service)>>, <<>>, <<>>), TRUE)
        stopped == IF running
                   THEN [known |-> EngineAfter(st.known, args, engineOk),
                         events |-> Append(st.events, Event("engine", ToLower(service), args))]
                   ELSE [known |-> st.known, events |-> st.events]
    IN RemoveLoopRaw(services, engineOk,
         [i |-> st.i + 1,
          known |-> stopped.known,
          allServices |-> MapDelete(st.allServices, service),
          events |-> Append(stopped.events, Event("delete", ToLower(service), <<>>))])

\* Mutant: the declaration is deleted before the container is stopped.
RECURSIVE RemoveLoopDeleteFirst(_, _, _)
RemoveLoopDeleteFirst(services, engineOk, st) ==
  IF st.i > Len(services) THEN st
  ELSE
    LET service == services[st.i]
        running == IsServiceRunning(st.known, service)
        args == StopServicesArgs(ResolveTargets(<<ToLower(service)>>, <<>>, <<>>), TRUE)
        deleted == Append(st.events, Event("delete", ToLower(service), <<>>))
    IN RemoveLoopDeleteFirst(services, engineOk,
         [i |-> st.i + 1,
          known |-> IF running THEN EngineAfter(st.known, args, engineOk) ELSE st.known,
          allServices |-> MapDelete(st.allServices, ToLower(service)),
          events |-> IF running
                     THEN Append(deleted, Event("engine", ToLower(service), args))
                     ELSE deleted])

\* RemoveServices, lines 370-377: the loop over the listed names.  st holds
\* the loop index, the engine's containers, the services map being edited
\* and the events issued so far; engineOk is the outcome of the compose
\* commands issued during the call (StopServices' error is discarded).
RECURSIVE RemoveLoop(_, _, _)
RemoveLoop(services, engineOk, st) ==
  IF st.i > Len(services) THEN st
  ELSE
    LET service == services[st.i]
        running == IsServiceRunning(st.known, service)
        args == StopServicesArgs(ResolveTargets(<<ToLower(service)>>, <<>>, <<>>), TRUE)
        stopped == IF running
                   THEN [known |-> EngineAfter(st.known, args, engineOk),
                         events |-> Append(st.events, Event("engine", ToLower(service), args))]
                   ELSE [known |-> st.known, events |-> st.events]
    IN RemoveLoop(services, engineOk,
         [i |-> st.i + 1,
          known |-> stopped.known,
          allServices |-> MapDelete(st.allServices, ToLower(service)),
          events |-> Append(stopped.events, Event("delete", ToLower(service), <<>>))])

RemoveServicesRun(curConfig, known, services, engineOk) ==
  LET allConfigValues == AllSettings(curConfig)
      st0 == [i |-> 1, known |-> known, allServices |-> ServicesOf(allConfigValues), events |-> <<>>]
      st == IF "services" \in DOMAIN allConfigValues
            THEN RemoveLoop(services, engineOk, st0)
            ELSE st0
      edited == IF "services" \in DOMAIN allConfigValues
                THEN MapSet(allConfigValues, "services", st.allServices)
                ELSE allConfigValues
  IN [known |-> st.known,
      doc |-> setDockerComposeDefaultsAndWrite(edited),
      events |-> Append(st.events, Event("write", "", <<>>))]

RemoveServices(services, engineOk, writeOk) ==
  /\ \E curConfig \in readInDockerCompose :
       LET run == RemoveServicesRun(curConfig, containers, services, engineOk)
       IN /\ file' = IF writeOk THEN run.doc ELSE file
          /\ containers' = run.known
          /\ last' = [NoCall EXCEPT
                       !.op = "RemoveServices", !.names = services,
                       !.res = IF writeOk THEN "ok" ELSE "err", !.wrote = writeOk,
                       !.events = run.events,
                       !.pre = PreOf(curConfig, containers)]
  /\ lastSet' = NoSet
  /\ UNCHANGED <<disk, host>>

GetVolumes ==
  /\ \E curConfig \in readInDockerCompose :
       last' = [NoCall EXCEPT
                 !.op = "GetVolumes",
                 !.out = IF "volumes" \in DOMAIN curConfig THEN curConfig["volumes"] ELSE EmptyMap]
  /\ UNCHANGED <<file, containers, disk, lastSet, host>>

SetVolumes(volumes, writeOk) ==
  /\ \E curConfig \in readInDockerCompose :
       /\ file' = IF writeOk
                  THEN setDockerComposeDefaultsAndWrite(MapSet(AllSettings(curConfig), "volumes", volumes))
                  ELSE file
       /\ last' = [NoCall EXCEPT
                    !.op = "SetVolumes", !.def = volumes, !.res = "void", !.wrote = writeOk,
                    !.events = <<Event("write", "", <<>>)>>,
                    !.pre = PreOf(curConfig, {})]
  /\ UNCHANGED <<containers, disk, lastSet, host>>

(* ---------------------------- initial states --------------------------- *)

\* docker-compose.yml as installed or edited by hand: lower-case keys, any
\* version tag, possibly a document-level networks key.
InitDocs ==
  { EmptyMap,
    [services |-> [foo |-> [restart |-> "v3", networks |-> "v2"]],
     version |-> "3.9", networks |-> "net"],
    [services |-> [foo |-> [restart |-> "v3"], mythic_server |-> [image |-> "v2", networks |-> "v2"]],
     volumes |-> [foo_volume |-> "v2"], version |-> "2.4"],
    [services |-> [mythic_server |-> [restart |-> "v3"]], networks |-> "net"] }

NoDisk == [root |-> TRUE, dirs |-> {}, files |-> {}]

Init ==
  /\ file \in InitDocs
  /\ containers \in SUBSET {"foo", "mythic_server"}
  /\ disk = NoDisk
  /\ last = NoCall
  /\ lastSet = NoSet
  /\ host = NoHost

Next ==
  \/ \E n \in ServiceNames : GetServiceConfiguration(n)
  \/ \E n \in ServiceNames, d \in DefSet, w \in BOOLEAN : SetServiceConfiguration(n, d, w)
  \/ \E l \in NameLists, e \in BOOLEAN, w \in BOOLEAN : RemoveServices(l, e, w)
  \/ GetVolumes
  \/ \E v \in VolumeSet, w \in BOOLEAN : SetVolumes(v, w)

Spec == Init /\ [][Next]_vars

(* ---------------------------- StopServices alone ----------------------- *)

\* Documents the store can have written: an initial document, or one
\* SetServiceConfiguration later.
WrittenDocs ==
  InitDocs \cup
  UNION { { SetServiceConfigurationDoc(c, n, d) : c \in ReadInConfig(f) } :
          f \in InitDocs, n \in ServiceNames, d \in DefSet }

InitStop ==
  /\ file \in WrittenDocs
  /\ containers \in SUBSET {"foo", "mythic_server"}
  /\ disk = NoDisk
  /\ last = NoCall
  /\ lastSet = NoSet
  /\ host = NoHost

NextStop ==
  \E l \in NameLists, del \in BOOLEAN, e \in BOOLEAN : StopServices(l, del, e)

SpecStop == InitStop /\ [][NextStop]_vars

(* ---------------------------- Status ----------------------------------- *)

\* Byte order of the strings of the model, for sort.Strings / sort.Slice /
\* os.ReadDir.
ByteOrder == <<"", "Foo", "README", "custom_agent", "foo", "mythic_server">>

Rank(str) == CHOOSE i \in DOMAIN ByteOrder : ByteOrder[i] = str

SortStrings(S) ==
  CHOOSE q \in MapOrder(S) : \A i, j \in DOMAIN q : i < j => Rank(q[i]) < Rank(q[j])

RemoveStringFromSliceNoOrder(source, str) ==
  IF \E index \in DOMAIN source : source[index] = str
  THEN LET index == CHOOSE x \in DOMAIN source :
                      /\ source[x] = str
                      /\ \A y \in DOMAIN source : source[y] = str => x <= y
       IN SubSeq([source EXCEPT ![index] = source[Len(source)]], 1, Len(source) - 1)
  ELSE source


\* Mutant: the plain files of the folder are removed while listing it.
GetInstalled3rdPartyServicesOnDiskWipe(d, mkdirOk) ==
  IF ~d.root /\ ~mkdirOk
  THEN [err |-> TRUE, disk |-> d, agentsOnDisk |-> <<>>]
  ELSE [err |-> FALSE, disk |-> [root |-> TRUE, dirs |-> d.dirs, files |-> {}],
        agentsOnDisk |-> SortStrings(d.dirs)]

\* GetInstalled3rdPartyServicesOnDisk: the folder is created when missing,
\* then its sub-directories are listed.
GetInstalled3rdPartyServicesOnDisk(d, mkdirOk) ==
  IF ~d.root /\ ~mkdirOk
  THEN [err |-> TRUE, disk |-> d, agentsOnDisk |-> <<>>]
  ELSE LET made == [d EXCEPT !.root = TRUE]
           entries == { [name |-> n, isDir |-> TRUE] : n \in made.dirs } \cup
                      { [name |-> n, isDir |-> FALSE] : n \in made.files }
       IN [err |-> FALSE, disk |-> made,
           agentsOnDisk |-> SortStrings({ f.name : f \in { e \in entries : e.isDir } })]

\* Status, lines 677-738: the loop over the containers.
RECURSIVE StatusLoop(_, _, _)
StatusLoop(conts, i, st) ==
  IF i > Len(conts) THEN st
  ELSE
    LET name == conts[i]
    IN IF name = "" THEN StatusLoop(conts, i + 1, st)
       ELSE IF StringInSlice(name, MythicPossibleServices)
       THEN StatusLoop(conts, i + 1,
              [st EXCEPT !.mythicLocalServices = Append(@, name)])
       ELSE IF StringInSlice(name, st.elementsOnDisk) \/ StringInSlice(name, st.elementsInCompose)
       THEN StatusLoop(conts, i + 1,
              [st EXCEPT !.installedServices = Append(@, name),
                         !.elementsOnDisk = RemoveStringFromSliceNoOrder(@, name),
                         !.elementsInCompose = RemoveStringFromSliceNoOrder(@, name)])
       ELSE StatusLoop(conts, i + 1, st)


\* Mutant: the declared names are not removed from the names on disk.
RemoveAllFromSkipped(elementsOnDisk, elementsInCompose, i) == elementsOnDisk

\* Status, lines 753-755: remove all elementsInCompose from elementsOnDisk.
RECURSIVE RemoveAllFrom(_, _, _)
RemoveAllFrom(elementsOnDisk, elementsInCompose, i) ==
  IF i > Len(elementsInCompose) THEN elementsOnDisk
  ELSE RemoveAllFrom(RemoveStringFromSliceNoOrder(elementsOnDisk, elementsInCompose[i]),
                     elementsInCompose, i + 1)

StatusReport(known, agentsOnDisk, inCompose) ==
  LET st == StatusLoop(SortStrings(known), 1,
              [mythicLocalServices |-> <<>>, installedServices |-> <<>>,
               elementsOnDisk |-> agentsOnDisk, elementsInCompose |-> inCompose])
  IN [core |-> st.mythicLocalServices,
      installed |-> st.installedServices,
      notStarted |-> Range(st.elementsInCompose),
      extra |-> Range(RemoveAllFrom(st.elementsOnDisk, st.elementsInCompose, 1))]

Status(verbose, mkdirOk) ==
  /\ \E curConfig \in readInDockerCompose :
     \E elementsInCompose \in MapOrder(GetAllInstalled3rdPartyServiceNames(curConfig)) :
       LET onDisk == GetInstalled3rdPartyServicesOnDisk(disk, mkdirOk)
       IN /\ disk' = onDisk.disk
          /\ last' = [NoCall EXCEPT
                       !.op = "Status", !.flag = verbose,
                       !.res = IF onDisk.err THEN "fatal" ELSE "ok",
                       !.out = IF onDisk.err THEN EmptyMap
                               ELSE StatusReport(containers, onDisk.agentsOnDisk, elementsInCompose),
                       !.pre = [PreOf(curConfig, containers) EXCEPT !.root = disk.root]]
  /\ UNCHANGED <<file, containers, lastSet, host>>

InitStatus ==
  /\ file \in InitDocs
  /\ containers \in SUBSET {"", "foo", "mythic_server"}
  /\ disk \in { [root |-> FALSE, dirs |-> {}, files |-> {}] } \cup
              [root : {TRUE}, dirs : SUBSET {"foo", "custom_agent", "mythic_server"},
               files : SUBSET {"README"}]
  /\ last = NoCall
  /\ lastSet = NoSet
  /\ host = NoHost

NextStatus == \E verbose \in BOOLEAN, mkdirOk \in BOOLEAN : Status(verbose, mkdirOk)

SpecStatus == InitStatus /\ [][NextStatus]_vars

(* ---------------------------- GetLogs ---------------------------------- *)

\* The engine multiplexes stdout and stderr of a container into frames:
\* an 8-byte header (stream type, three zero bytes, big-endian uint32
\* payload length) followed by the payload.
MaxFrames == 2

MaxPayload == 2

HeaderLen == 8

PayloadBytes == {7}

Frames ==
  [typ : {1, 2}, payload : UNION { [1..n -> PayloadBytes] : n \in 0..MaxPayload }]

PutUint32(n) ==
  << (n \div 16777216) % 256, (n \div 65536) % 256, (n \div 256) % 256, n % 256 >>

Uint32(b) == b[1] * 16777216 + b[2] * 65536 + b[3] * 256 + b[4]

EncodeFrame(f) == <<f.typ, 0, 0, 0>> \o PutUint32(Len(f.payload)) \o f.payload

RECURSIVE EncodeFrames(_)
EncodeFrames(fs) ==
  IF fs = <<>> THEN <<>> ELSE EncodeFrame(Head(fs)) \o EncodeFrames(Tail(fs))

FrameLists == UNION { [1..n -> Frames] : n \in 0..MaxFrames }

\* What the engine can serve: a well-formed stream, or one that ends early.
LogStreams ==
  UNION { { SubSeq(EncodeFrames(fs), 1, k) : k \in 0..Len(EncodeFrames(fs)) } : fs \in FrameLists }

\* reader.Read(buf) at offset pos: at the end of the stream it reports io.EOF;
\* otherwise it copies what the current chunk still holds, at most len(buf)
\* bytes, and reports no error.  n is the number of bytes copied.
ReaderRead(stream, cut, pos, bufLen) ==
  LET chunkEnd == IF pos < cut /\ cut < Len(stream) THEN cut ELSE Len(stream)
      avail == chunkEnd - pos
  IN IF pos >= Len(stream) /\ bufLen > 0 THEN [n |-> 0, eof |-> TRUE]
     ELSE [n |-> IF bufLen < avail THEN bufLen ELSE avail, eof |-> FALSE]

\* Read into a buffer keeps the bytes of the buffer it does not overwrite.
Overwrite(buf, stream, pos, n) ==
  [i \in DOMAIN buf |-> IF i <= n THEN stream[pos + i] ELSE buf[i]]

ZeroBytes(n) == [i \in 1..n |-> 0]

\* The loop of GetLogs.  content is make([]byte, length): the bytes read,
\* then zeros; it is printed whole.  hdr is the number of header bytes the
\* Read that preceded the frame returned.
RECURSIVE DecodeLoop(_, _, _, _, _)
DecodeLoop(stream, cut, pos, p, printed) ==
  LET h == ReaderRead(stream, cut, pos, HeaderLen)
  IN IF h.eof THEN printed
     ELSE LET p2 == Overwrite(p, stream, pos, h.n)
              length == Uint32(SubSeq(p2, 5, 8))
              c == ReaderRead(stream, cut, pos + h.n, length)
              got == SubSeq(stream, pos + h.n + 1, pos + h.n + c.n)
          IN DecodeLoop(stream, cut, pos + h.n + c.n, p2,
                        Append(printed, [typ |-> p2[1], length |-> length,
                                         got |-> got, hdr |-> h.n]))

GetLogs(service, logCount, follow) ==
  /\ last' = [NoCall EXCEPT
               !.op = "GetLogs", !.name = service, !.flag = follow,
               !.res = IF containers = {} THEN "No containers running"
                       ELSE IF service \notin containers THEN "Failed to find that container"
                       ELSE "ok",
               !.events = IF service \in containers
                          THEN DecodeLoop(host.logs, host.cut, 0, ZeroBytes(HeaderLen), <<>>)
                          ELSE <<>>]
  /\ UNCHANGED <<file, containers, disk, lastSet, host>>

InitLogs ==
  /\ file = EmptyMap
  /\ containers \in { {}, {"foo"} }
  /\ disk = NoDisk
  /\ last = NoCall
  /\ lastSet = NoSet
  /\ \E s \in LogStreams, c \in 0..(HeaderLen + MaxPayload) :
       host = [NoHost EXCEPT !.logs = s, !.cut = c]

NextLogs == \E n \in ServiceNames, f \in BOOLEAN : GetLogs(n, "all", f)

SpecLogs == InitLogs /\ [][NextLogs]_vars

(* ---------------------------- TestPorts -------------------------------- *)

\* Two of the eight entries of portChecks (lines 533-566); the others have
\* the same shape.
PortChecks ==
  [MYTHIC_SERVER_HOST |-> <<"MYTHIC_SERVER_PORT", "mythic_server">>,
   POSTGRES_HOST |-> <<"POSTGRES_PORT", "mythic_postgres">>]

Loopback == "127.0.0.1"

StartNames == {"foo", "mythic_server", "mythic_postgres"}

StartLists ==
  { <<>>, <<"foo">>, <<"mythic_server">>, <<"mythic_postgres", "mythic_server">>,
    <<"mythic_server", "foo">>, <<"foo", "mythic_postgres", "mythic_server">> }

\* net.Listen("tcp", ":"+port): port 0 asks for any free port.
Listen(bound, port) == port = 0 \/ port \notin bound

\* Mutant: the configured host is not looked at.
BindsLocallyAlways(env, key, service) == TRUE

\* Line 569: the service is published on this machine.
BindsLocally(env, key, service) == env[key] = service \/ env[key] = Loopback

\* Mutant: a port in use is only logged.
RECURSIVE TestPortsLoopLogOnly(_, _, _, _, _, _)
TestPortsLoopLogOnly(order, i, services, env, bound, st) ==
  IF i > Len(order) THEN st
  ELSE
    LET key == order[i]
        val == PortChecks[key]
        port == env[val[1]]
    IN IF ~StringInSlice(val[2], services)
       THEN TestPortsLoopLogOnly(order, i + 1, services, env, bound, st)
       ELSE IF BindsLocally(env, key, val[2])
       THEN TestPortsLoopLogOnly(order, i + 1, services, env, bound,
              [st EXCEPT !.addServices = Append(@, val[2]),
                         !.events = @ \o <<Event("listen", val[2], <<port>>),
                                           Event("close", val[2], <<port>>)>>])
       ELSE TestPortsLoopLogOnly(order, i + 1, services, env, bound,
              [st EXCEPT !.removeServices = Append(@, val[2])])

\* The loop of TestPorts over portChecks, in the order the map is ranged.
RECURSIVE TestPortsLoop(_, _, _, _, _, _)
TestPortsLoop(order, i, services, env, bound, st) ==
  IF i > Len(order) \/ st.res = "fatal" THEN st
  ELSE
    LET key == order[i]
        val == PortChecks[key]
        port == env[val[1]]
    IN IF ~StringInSlice(val[2], services)
       THEN TestPortsLoop(order, i + 1, services, env, bound, st)
       ELSE IF BindsLocally(env, key, val[2])
       THEN IF Listen(bound, port)
            THEN TestPortsLoop(order, i + 1, services, env, bound,
                   [st EXCEPT !.addServices = Append(@, val[2]),
                              !.events = @ \o <<Event("listen", val[2], <<port>>),
                                                Event("close", val[2], <<port>>)>>])
            ELSE [st EXCEPT !.addServices = Append(@, val[2]),
                            !.events = Append(@, Event("listen", val[2], <<port>>)),
                            !.res = "fatal"]
       ELSE TestPortsLoop(order, i + 1, services, env, bound,
              [st EXCEPT !.removeServices = Append(@, val[2])])

TestPorts(services) ==
  /\ ~host.exited
  /\ \E order \in MapOrder(DOMAIN PortChecks) :
       LET st == TestPortsLoop(order, 1, services, host.env, host.bound,
                   [events |-> <<>>, res |-> "ok", addServices |-> <<>>,
                    removeServices |-> <<>>])
       IN /\ last' = [NoCall EXCEPT !.op = "TestPorts", !.names = services,
                                    !.res = st.res, !.events = st.events]
          /\ host' = [host EXCEPT !.tested = @ \cup Range(services),
                                  !.exited = (st.res = "fatal")]
  /\ UNCHANGED <<file, containers, disk, lastSet>>

(* ---------------------------- StartServices ---------------------------- *)

\* DoesImageExist: some image carries the tag <lower-cased service>:latest.
\* images holds the repository names that have the tag latest.
DoesImageExist(images, service) == ToLower(service) \in images

\* Mutant: the compose token is prefixed whatever tool was found.
runDockerComposeAlwaysPrefix(path, args, commandOk) ==
  IF "docker-compose" \in path
  THEN [res |-> IF commandOk THEN "ok" ELSE "err",
        events |-> <<Event("run", "docker-compose", <<"compose">> \o args)>>]
  ELSE IF "docker" \in path
  THEN [res |-> IF commandOk THEN "ok" ELSE "err",
        events |-> <<Event("run", "docker", <<"compose">> \o args)>>]
  ELSE [res |-> "fatal", events |-> <<>>]

\* runDockerCompose, lines 1137-1156: the tool that is run and its
\* arguments; commandOk is whether the call returns a nil error.
runDockerCompose(path, args, commandOk) ==
  IF "docker-compose" \in path
  THEN [res |-> IF commandOk THEN "ok" ELSE "err",
        events |-> <<Event("run", "docker-compose", args)>>]
  ELSE IF "docker" \in path
  THEN [res |-> IF commandOk THEN "ok" ELSE "err",
        events |-> <<Event("run", "docker", <<"compose">> \o args)>>]
  ELSE [res |-> "fatal", events |-> <<>>]

\* Mutant: every requested service is built.
StartServicesStepsBuildAll(services, rebuildOnStart, images) ==
  <<  <<"up", "--build", "-d">> \o services >>

\* The compose commands StartServices intends to run, in order.
StartServicesSteps(services, rebuildOnStart, images) ==
  IF rebuildOnStart THEN << <<"up", "--build", "-d">> \o services >>
  ELSE
    LET needToBuild == SelectSeq(services, LAMBDA val : ~DoesImageExist(images, val))
        alreadyBuilt == SelectSeq(services, LAMBDA val : DoesImageExist(images, val))
    IN (IF Len(needToBuild) > 0 THEN << <<"up", "--build", "-d">> \o needToBuild >> ELSE <<>>)
       \o (IF Len(alreadyBuilt) > 0 THEN << <<"up", "-d">> \o alreadyBuilt >> ELSE <<>>)

\* runDockerCompose, lines 1156-1191: the exit status of the command is
\* collected (command.Wait) only when no pseudo-terminal could be opened;
\* with one, the output is copied and nil is returned.
ReportsFailure(pty, exitOk) == ~pty /\ ~exitOk

\* Runs the commands one after the other and returns at the first whose call
\* returns an error; failAt is the command that fails (0: none).  done are
\* the commands that succeeded, failed the position of the one that failed.
RECURSIVE RunSteps(_, _, _, _, _, _)
RunSteps(steps, i, path, pty, failAt, st) ==
  IF i > Len(steps) \/ st.res # "ok" THEN st
  ELSE LET r == runDockerCompose(path, steps[i], ~ReportsFailure(pty, failAt # i))
           ran == r.res # "fatal"
       IN RunSteps(steps, i + 1, path, pty, failAt,
                   [res |-> r.res, events |-> st.events \o r.events,
                    done |-> IF ran /\ failAt # i THEN Append(st.done, steps[i]) ELSE st.done,
                    failed |-> IF ran /\ failAt = i THEN i ELSE st.failed])

\* The services a successful `up` names: their containers exist afterwards,
\* and with --build so do their images.
UpNames(args) == { ToLower(args[i]) : i \in { j \in DOMAIN args : args[j] \notin {"up", "--build", "-d"} } }

StartServices(services, rebuildOnStart, failAt) ==
  /\ ~host.exited
  /\ LET st == RunSteps(StartServicesSteps(services, rebuildOnStart, host.images), 1,
                        host.path, host.pty, failAt,
                        [res |-> "ok", events |-> <<>>, done |-> <<>>, failed |-> 0])
         built == UNION { UpNames(st.done[i]) : i \in { j \in DOMAIN st.done : "--build" \in Range(st.done[j]) } }
         up == UNION { UpNames(st.done[i]) : i \in DOMAIN st.done }
     IN /\ last' = [NoCall EXCEPT !.op = "StartServices", !.names = services,
                                  !.flag = rebuildOnStart, !.res = st.res,
                                  !.events = st.events,
                                  !.out = [failed |-> st.failed, known |-> containers],
                                  !.pre = [NoPre EXCEPT !.known = host.images]]
        /\ containers' = containers \cup up
        /\ host' = [host EXCEPT !.images = @ \cup built, !.exited = (st.res = "fatal")]
  /\ UNCHANGED <<file, disk, lastSet>>

InitPorts ==
  /\ file = EmptyMap
  /\ containers = {}
  /\ disk = NoDisk
  /\ last = NoCall
  /\ lastSet = NoSet
  /\ \E sh \in {"mythic_server", Loopback, "10.0.0.5"}, ph \in {"mythic_postgres", "10.0.0.5"},
        pp \in {0, 5432}, b \in SUBSET {5432, 17443} :
       host = [NoHost EXCEPT !.env.MYTHIC_SERVER_HOST = sh, !.env.POSTGRES_HOST = ph,
                             !.env.POSTGRES_PORT = pp, !.bound = b,
                             !.images = {"mythic_server"}]

NextPorts ==
  \/ \E l \in StartLists : TestPorts(l)
  \/ \E l \in StartLists, r \in BOOLEAN : StartServices(l, r, 0)

SpecPorts == InitPorts /\ [][NextPorts]_vars

InitStart ==
  /\ file = EmptyMap
  /\ containers = {}
  /\ disk = NoDisk
  /\ last = NoCall
  /\ lastSet = NoSet
  /\ \E im \in SUBSET {"foo", "mythic_server"}, p \in SUBSET {"docker-compose", "docker"},
        t \in BOOLEAN :
       host = [NoHost EXCEPT !.images = im, !.path = p, !.pty = t]

NextStart == \E l \in StartLists, r \in BOOLEAN, f \in 0..2 : StartServices(l, r, f)

SpecStart == InitStart /\ [][NextStart]_vars

(* ---------------------------- loading the document --------------------- *)

\* viper's ReadInConfig on docker-compose.yml in the executable's directory.
ReadInConfigError(doc) ==
  CASE doc = "absent" -> "ConfigFileNotFoundError"
    [] doc = "corrupt" -> "ParseError"
    [] OTHER -> "nil"

\* GenerateRequiredConfig, lines 44-65.  os.Create("docker-compose.yml")
\* names the file relative to the working directory and truncates a file
\* that is there; the second ReadInConfig only logs.
GenerateRequiredConfigRun(h, f, createOk) ==
  CASE ReadInConfigError(h.doc) = "nil" -> [res |-> "ok", host |-> h, file |-> f, events |-> <<>>]
    [] ReadInConfigError(h.doc) = "ParseError" ->
         [res |-> "fatal", host |-> [h EXCEPT !.exited = TRUE], file |-> f, events |-> <<>>]
    [] OTHER ->
         IF ~createOk
         THEN [res |-> "fatal", host |-> [h EXCEPT !.exited = TRUE], file |-> f, events |-> <<>>]
         ELSE IF h.cwdIsExe
         THEN [res |-> "ok", host |-> [h EXCEPT !.doc = "present"], file |-> EmptyMap,
               events |-> <<Event("create", "exe", <<>>)>>]
         ELSE [res |-> "ok", host |-> [h EXCEPT !.cwdDoc = "empty"], file |-> f,
               events |-> <<Event("create", "cwd", <<>>)>>]

GenerateRequiredConfig(createOk) ==
  /\ ~host.exited
  /\ LET run == GenerateRequiredConfigRun(host, file, createOk)
     IN /\ host' = run.host
        /\ file' = run.file
        /\ last' = [NoCall EXCEPT !.op = "GenerateRequiredConfig", !.res = run.res,
                                  !.events = run.events,
                                  !.pre = [NoPre EXCEPT !.root = (host.doc = "present")]]
  /\ UNCHANGED <<containers, disk, lastSet>>

\* readInDockerCompose, lines 1210-1216: any error of ReadInConfig ends the
\* process; this is every store operation on a document that does not load.
readInDockerComposeFatal(op) ==
  /\ ~host.exited
  /\ ReadInConfigError(host.doc) # "nil"
  /\ last' = [NoCall EXCEPT !.op = op, !.res = "fatal",
                            !.pre = [NoPre EXCEPT !.root = FALSE]]
  /\ host' = [host EXCEPT !.exited = TRUE]
  /\ UNCHANGED <<file, containers, disk, lastSet>>

\* The document loads, and the process is running.
Loads == ~host.exited /\ ReadInConfigError(host.doc) = "nil"

InitLoad ==
  /\ containers = {}
  /\ disk = NoDisk
  /\ last = NoCall
  /\ lastSet = NoSet
  /\ \E d \in {"present", "absent", "corrupt"}, e \in BOOLEAN, c \in {"absent", "present"} :
       /\ file \in IF d = "present" THEN InitDocs ELSE {EmptyMap}
       /\ e => c = "absent"
       /\ host = [NoHost EXCEPT !.doc = d, !.cwdIsExe = e, !.cwdDoc = c]

NextLoad ==
  \/ \E c \in BOOLEAN : GenerateRequiredConfig(c)
  \/ \E op \in {"GetVolumes", "SetVolumes"} : readInDockerComposeFatal(op)
  \/ Loads /\ GetVolumes
  \/ Loads /\ \E v \in VolumeSet, w \in BOOLEAN : SetVolumes(v, w)

SpecLoad == InitLoad /\ [][NextLoad]_vars

(* ---------------------------- Status: the port column ------------------ *)

\* types.Port as the engine reports it.
PortSet ==
  [PrivatePort : {80, 443}, PublicPort : {0, 80, 443}, IP : {"0.0.0.0", "127.0.0.1"},
   Type : {"tcp"}]

PortLists == UNION { [1..n -> PortSet] : n \in 0..MaxLen }

IndexOrders(n) == { f \in [1..n -> 1..n] : \A i \in 1..n : \E j \in 1..n : f[j] = i }

\* sort.Slice by PublicPort (lines 686-688): some ordering with the keys
\* ascending; elements with equal keys can come out in any order.
SortByPublicPort(ports) ==
  { [i \in DOMAIN ports |-> ports[f[i]]] : f \in
      { g \in IndexOrders(Len(ports)) :
          \A i, j \in DOMAIN ports : i < j => ports[g[i]].PublicPort <= ports[g[j]].PublicPort } }

\* sort.Slice of the uint16 values, ascending (line 700).
RECURSIVE SortAscending(_)
SortAscending(s) ==
  IF s = <<>> THEN <<>>
  ELSE LET m == CHOOSE i \in DOMAIN s : \A j \in DOMAIN s : s[i] <= s[j]
       IN <<s[m]>> \o SortAscending(SubSeq(s, 1, m - 1) \o SubSeq(s, m + 1, Len(s)))

\* One element of the port column.  fmt.Sprintf("%d/%s -> %s:%d", ...) gives
\* a mapping, fmt.Sprintf("%d", val) a bare port; the column is the
\* elements joined by ", ".
PortMapping(port) ==
  [kind |-> "map", private |-> port.PrivatePort, proto |-> port.Type, ip |-> port.IP,
   public |-> port.PublicPort]

BarePort(val) == [kind |-> "bare", private |-> val, proto |-> "", ip |-> "", public |-> val]

IsIdentity(port) == port.PrivatePort = port.PublicPort /\ port.IP = "0.0.0.0"

\* Lines 684-710, for ports already sorted by PublicPort.
PortString(sorted) ==
  LET published == SelectSeq(sorted, LAMBDA port : port.PublicPort > 0)
      identity == SelectSeq(published, IsIdentity)
      others == SelectSeq(published, LAMBDA port : ~IsIdentity(port))
      portRanges == SortAscending([i \in DOMAIN identity |-> identity[i].PrivatePort])
      portRangeMaps == [i \in DOMAIN others |-> PortMapping(others[i])]
  IN portRangeMaps \o [i \in DOMAIN portRanges |-> BarePort(portRanges[i])]

\* The rows Status prints for the containers, in label order (lines 677-738):
\* only the table of the core services has a port column.
StatusRows(verbose) ==
  /\ \E sorted \in SortByPublicPort(host.ports) :
       last' = [NoCall EXCEPT
                 !.op = "StatusRows", !.flag = verbose,
                 !.events = [i \in DOMAIN SortStrings(containers \ {""}) |->
                    LET name == SortStrings(containers \ {""})[i]
                    IN [kind |-> IF StringInSlice(name, MythicPossibleServices)
                                 THEN "core" ELSE "installed",
                        name |-> name,
                        args |-> IF StringInSlice(name, MythicPossibleServices)
                                 THEN PortString(sorted) ELSE <<>>]]]
  /\ UNCHANGED <<file, containers, disk, lastSet, host>>

InitRows ==
  /\ file = EmptyMap
  /\ containers \in SUBSET {"foo", "mythic_server"}
  /\ disk = NoDisk
  /\ last = NoCall
  /\ lastSet = NoSet
  /\ \E ps \in PortLists : host = [NoHost EXCEPT !.ports = ps]

NextRows == \E verbose \in BOOLEAN : StatusRows(verbose)

SpecRows == InitRows /\ [][NextRows]_vars

(* ---------------------------- draining a spawned command --------------- *)

\* runDocker (lines 1107-1135) and the path of runDockerCompose without a
\* pseudo-terminal (lines 1157-1187) start two goroutines that scan the
\* child's stdout and stderr, then start the child, then wait for it.
DrainFns == {"runDocker", "runDockerCompose"}

\* command.Start(): the child runs; the goroutines were started before it.
commandStart ==
  /\ host.run.pc = "spawn"
  /\ host' = [host EXCEPT !.run.pc = "started", !.run.child = "running"]
  /\ UNCHANGED <<file, containers, disk, last, lastSet>>

\* The child ends; what it wrote stays in the pipes.
ChildExit ==
  /\ host.run.child = "running"
  /\ host' = [host EXCEPT !.run.child = "exited"]
  /\ UNCHANGED <<file, containers, disk, last, lastSet>>

\* One turn of `for stdoutScanner.Scan()`: a line is read if the pipe holds
\* one and is open; the loop ends when the pipe is at its end (the child
\* has exited and nothing is left) or has been closed under the reader.
ScanStdout ==
  /\ host.run.outWorker = "reading"
  /\ host.run.child # "none"
  /\ IF host.run.pipes = "open" /\ host.run.stdout > 0
     THEN host' = [host EXCEPT !.run.stdout = @ - 1, !.run.read = @ + 1]
     ELSE /\ host.run.pipes = "closed" \/ host.run.child = "exited"
          /\ host' = [host EXCEPT !.run.outWorker = "done"]
  /\ UNCHANGED <<file, containers, disk, last, lastSet>>

ScanStderr ==
  /\ host.run.errWorker = "reading"
  /\ host.run.child # "none"
  /\ IF host.run.pipes = "open" /\ host.run.stderr > 0
     THEN host' = [host EXCEPT !.run.stderr = @ - 1, !.run.read = @ + 1]
     ELSE /\ host.run.pipes = "closed" \/ host.run.child = "exited"
          /\ host' = [host EXCEPT !.run.errWorker = "done"]
  /\ UNCHANGED <<file, containers, disk, last, lastSet>>

\* wg.Wait() of runDocker (line 1128); runDockerCompose has no WaitGroup.
wgWait ==
  /\ host.run.fn = "runDocker"
  /\ host.run.pc = "started"
  /\ host.run.outWorker = "done" /\ host.run.errWorker = "done"
  /\ host' = [host EXCEPT !.run.pc = "drained"]
  /\ UNCHANGED <<file, containers, disk, last, lastSet>>

\* Where the function calls command.Wait(): runDocker after wg.Wait()
\* (line 1129), runDockerCompose right after command.Start() (line 1181).
commandWaitReady(run) ==
  IF run.fn = "runDocker" THEN run.pc = "drained" ELSE run.pc = "started"

\* command.Wait(): returns once the child has exited, closes the parent's
\* ends of the pipes, and the function returns with the exit status.
commandWait ==
  /\ commandWaitReady(host.run)
  /\ host.run.child = "exited"
  /\ host' = [host EXCEPT !.run.pc = "returned", !.run.pipes = "closed",
                          !.run.collected = TRUE]
  /\ last' = [NoCall EXCEPT !.op = host.run.fn,
                            !.res = IF host.run.exitOk THEN "ok" ELSE "err"]
  /\ UNCHANGED <<file, containers, disk, lastSet>>

InitDrain ==
  /\ file = EmptyMap
  /\ containers = {}
  /\ disk = NoDisk
  /\ last = NoCall
  /\ lastSet = NoSet
  /\ \E f \in DrainFns, o \in 0..MaxLen, e \in 0..MaxLen, ok \in BOOLEAN :
       host = [NoHost EXCEPT !.run = [NoRun EXCEPT
                 !.fn = f, !.pc = "spawn", !.stdout = o, !.stderr = e, !.exitOk = ok,
                 !.outWorker = "reading", !.errWorker = "reading", !.pipes = "open"]]

NextDrain ==
  \/ commandStart
  \/ ChildExit
  \/ ScanStdout
  \/ ScanStderr
  \/ wgWait
  \/ commandWait

SpecDrain == InitDrain /\ [][NextDrain]_vars

(* ---------------------------- concurrent invocations ------------------- *)

\* A store operation of invocation p up to the return of readInDockerCompose
\* (lines 302 and 365): it holds what the file held then.
SetServiceConfigurationRead(p, service, pStruct) ==
  /\ host.inv[p].pc = "idle"
  /\ \E curConfig \in readInDockerCompose :
       host' = [host EXCEPT !.inv[p] = [NoInv EXCEPT
                  !.pc = "read", !.op = "SetServiceConfiguration", !.name = service,
                  !.def = pStruct, !.cfg = curConfig]]
  /\ UNCHANGED <<file, containers, disk, last, lastSet>>

RemoveServicesRead(p, services) ==
  /\ host.inv[p].pc = "idle"
  /\ \E curConfig \in readInDockerCompose :
       host' = [host EXCEPT !.inv[p] = [NoInv EXCEPT
                  !.pc = "read", !.op = "RemoveServices", !.names = services,
                  !.cfg = curConfig]]
  /\ UNCHANGED <<file, containers, disk, last, lastSet>>

\* Mutant: the document is read again just before it is written.
DocumentToEditFresh(inv, curFile) == CHOOSE c \in ReadInConfig(curFile) : TRUE

\* The document an invocation edits is the one it read at its start.
DocumentToEdit(inv, curFile) == inv.cfg

\* The other invocations that have read and not yet written now hold a
\* document that is out of date.
MarkStale(invs, p, writeOk) ==
  [q \in Invocations |->
     IF q = p THEN [invs[q] EXCEPT !.pc = "done", !.wrote = writeOk]
     ELSE IF writeOk /\ invs[q].pc = "read" THEN [invs[q] EXCEPT !.stale = TRUE]
     ELSE invs[q]]

\* The rest of the operation: the edit of the copy and the write of the
\* whole file (lines 303-321, 366-388).
SetServiceConfigurationWrite(p, writeOk) ==
  /\ host.inv[p].pc = "read"
  /\ host.inv[p].op = "SetServiceConfiguration"
  /\ file' = IF writeOk
             THEN SetServiceConfigurationDoc(DocumentToEdit(host.inv[p], file),
                                             host.inv[p].name, host.inv[p].def)
             ELSE file
  /\ last' = [NoCall EXCEPT !.op = "SetServiceConfiguration", !.name = host.inv[p].name,
                            !.def = host.inv[p].def,
                            !.res = IF writeOk THEN "ok" ELSE "err", !.wrote = writeOk,
                            !.events = <<Event("write", "", <<>>)>>]
  /\ host' = [host EXCEPT !.inv = MarkStale(host.inv, p, writeOk)]
  /\ UNCHANGED <<containers, disk, lastSet>>

RemoveServicesWrite(p, engineOk, writeOk) ==
  /\ host.inv[p].pc = "read"
  /\ host.inv[p].op = "RemoveServices"
  /\ LET run == RemoveServicesRun(DocumentToEdit(host.inv[p], file), containers,
                                  host.inv[p].names, engineOk)
     IN /\ file' = IF writeOk THEN run.doc ELSE file
        /\ containers' = run.known
        /\ last' = [NoCall EXCEPT !.op = "RemoveServices", !.names = host.inv[p].names,
                                  !.res = IF writeOk THEN "ok" ELSE "err",
                                  !.wrote = writeOk, !.events = run.events]
  /\ host' = [host EXCEPT !.inv = MarkStale(host.inv, p, writeOk)]
  /\ UNCHANGED <<disk, lastSet>>

InitConcurrent ==
  /\ file \in InitDocs
  /\ containers \in { {}, {"mythic_server"} }
  /\ disk = NoDisk
  /\ last = NoCall
  /\ lastSet = NoSet
  /\ host = NoHost

NextConcurrent ==
  \/ \E p \in Invocations, n \in ServiceNames, d \in DefSet : SetServiceConfigurationRead(p, n, d)
  \/ \E p \in Invocations, l \in NameLists : RemoveServicesRead(p, l)
  \/ \E p \in Invocations, w \in BOOLEAN : SetServiceConfigurationWrite(p, w)
  \/ \E p \in Invocations, e \in BOOLEAN, w \in BOOLEAN : RemoveServicesWrite(p, e, w)

SpecConcurrent == InitConcurrent /\ [][NextConcurrent]_vars

(* ======================================================================= *)
(* Claims                                                                  *)
(* ======================================================================= *)

Core == Range(MythicPossibleServices)

\* The declared names of a file, compared case-insensitively.
DeclaredNames(raw) == { ToLower(k) : k \in DOMAIN ServicesOf(raw) }

LowerNames(names) == { ToLower(names[i]) : i \in DOMAIN names }

AfterSetGet ==
  /\ last.op = "GetServiceConfiguration"
  /\ lastSet.valid
  /\ last.name = lastSet.name

C2_KeysLowercase ==
  /\ \A k \in DOMAIN ServicesOf(file) : ToLower(k) = k
  /\ \A k1, k2 \in DOMAIN ServicesOf(file) : ToLower(k1) = ToLower(k2) => k1 = k2

C4_StopBeforeDelete ==
  last.op = "RemoveServices" =>
    LET ev == last.events
    IN /\ Len(ev) >= 1
       /\ \A i \in DOMAIN ev : (ev[i].kind = "write") <=> (i = Len(ev))
       /\ \A n \in (last.pre.known \cap last.pre.keys) \cap LowerNames(last.names) :
            \E i, j \in DOMAIN ev :
              /\ i < j
              /\ ev[i].kind = "engine" /\ ev[i].args = <<"rm", "-s", "-v", "-f", n>>
              /\ ev[j].kind = "delete" /\ ev[j].name = n
              /\ \A k \in 1..i : ~(ev[k].kind = "delete" /\ ev[k].name = n)

C4_Witness ==
  /\ last.op = "RemoveServices"
  /\ last.wrote
  /\ "foo" \in (last.pre.known \cap last.pre.keys) \cap LowerNames(last.names)
  /\ "foo" \notin DOMAIN ServicesOf(file)

\* C5: every document written by SetServiceConfiguration, RemoveServices or
\* SetVolumes has version "2.4" and no document-level networks key, whatever
\* it held before; a networks key inside a service definition is kept.
C5_WriteDefaults ==
  [][ (last'.wrote /\ last'.op \in {"SetServiceConfiguration", "RemoveServices", "SetVolumes"}) =>
        /\ "version" \in DOMAIN file' /\ file'["version"] = "2.4"
        /\ "networks" \notin DOMAIN file'
        /\ \E before \in Loaded(file) :
             \A n \in DOMAIN ServicesOf(file') :
               IF last'.op = "SetServiceConfiguration" /\ n = last'.name
               THEN "networks" \in DOMAIN last'.def => "networks" \in DOMAIN file'["services"][n]
               ELSE /\ n \in DOMAIN ServicesOf(before)
                    /\ "networks" \in DOMAIN ServicesOf(before)[n]
                         => "networks" \in DOMAIN file'["services"][n]
    ]_vars

C5_Witness ==
  /\ last.wrote
  /\ last.op = "SetVolumes"
  /\ last.pre.networks
  /\ "networks" \notin DOMAIN file
  /\ \E n \in DOMAIN ServicesOf(file) : "networks" \in DOMAIN file["services"][n]

SameAt(before, after, k) ==
  /\ (k \in DOMAIN before) <=> (k \in DOMAIN after)
  /\ k \in DOMAIN before => before[k] = after[k]

OtherServicesKept(before, after, name) ==
  \A n \in ((DOMAIN ServicesOf(before)) \cup (DOMAIN ServicesOf(after))) \ {ToLower(name)} :
    SameAt(ServicesOf(before), ServicesOf(after), n)

\* C6 as stated: SetServiceConfiguration(n, def) changes only services[n];
\* every other top-level key and every other service definition of the
\* loaded document is as before.
C6_OnlyEntryChanges ==
  [][ (last'.op = "SetServiceConfiguration" /\ last'.wrote) =>
        \E before \in Loaded(file) : \A after \in Loaded(file') :
          /\ \A k \in ((DOMAIN before) \cup (DOMAIN after)) \ {"services"} : SameAt(before, after, k)
          /\ OtherServicesKept(before, after, last'.name)
    ]_vars

\* C6 amended: SetServiceConfiguration(n, def) changes only services[n], the
\* version tag (set to "2.4") and the document-level networks key (removed);
\* every other top-level key and every other service definition of the
\* loaded document is as before.
C6_FrameExceptDefaults ==
  [][ (last'.op = "SetServiceConfiguration" /\ last'.wrote) =>
        \E before \in Loaded(file) : \A after \in Loaded(file') :
          /\ \A k \in ((DOMAIN before) \cup (DOMAIN after)) \ {"services", "version", "networks"} :
               SameAt(before, after, k)
          /\ OtherServicesKept(before, after, last'.name)
          /\ "version" \in DOMAIN after /\ after["version"] = "2.4"
          /\ "networks" \notin DOMAIN after
          /\ ToLower(last'.name) \in DOMAIN ServicesOf(after)
    ]_vars

C6_Witness ==
  /\ last.op = "SetServiceConfiguration"
  /\ last.wrote
  /\ last.pre.networks
  /\ last.name = "Foo"
  /\ "mythic_server" \in last.pre.keys
  /\ "mythic_server" \in DOMAIN ServicesOf(file)

StatusDone == last.op = "Status" /\ last.res = "ok"

\* C8 as stated: Status computes "declared but not started" as the declared
\* third-party names minus the labels of the containers, and "on disk but
\* not declared" as the directories on disk minus (declared third-party
\* names union container labels).
C8_AdvisoryLists ==
  StatusDone =>
    /\ last.out.notStarted = (DeclaredNames(file) \ Core) \ containers
    /\ last.out.extra = disk.dirs \ ((DeclaredNames(file) \ Core) \cup containers)

\* C8 amended: "declared but not started" is the declared third-party names
\* minus the container labels; "on disk but not declared" is the directories
\* on disk minus (declared third-party names union the container labels that
\* are not core services): a directory named like a core service stays in
\* the list even when that core container exists.
C8_AdvisoryListsNonCore ==
  StatusDone =>
    /\ last.out.notStarted = (DeclaredNames(file) \ Core) \ containers
    /\ last.out.extra = disk.dirs \ ((DeclaredNames(file) \ Core) \cup (containers \ Core))

C8_Witness ==
  /\ StatusDone
  /\ {"foo", "custom_agent", "mythic_server"} \subseteq disk.dirs
  /\ "mythic_server" \in containers
  /\ "foo" \in DeclaredNames(file)
  /\ last.out.extra = {"custom_agent", "mythic_server"}
  /\ last.out.notStarted = {"foo"}

\* C9 as stated: Status leaves the configuration document, the directories
\* on disk (the install root included) and the engine's containers as they
\* were.
C9_StatusReadOnly ==
  [][ last'.op = "Status" => (file' = file /\ disk' = disk /\ containers' = containers) ]_vars

\* C9 amended: Status leaves the configuration document, the engine's
\* containers and the content of the install root as they were; the only
\* change it can make is to create the install root when it does not exist.
C9_StatusReadOnlyButRoot ==
  [][ last'.op = "Status" =>
        /\ file' = file
        /\ containers' = containers
        /\ disk'.dirs = disk.dirs /\ disk'.files = disk.files
        /\ disk.root => disk'.root
        /\ (last'.res = "ok") => disk'.root
    ]_vars

C9_Witness ==
  /\ StatusDone
  /\ ~last.pre.root
  /\ disk.root

\* C10: StopServices issues one compose command; for an empty request its
\* service arguments are exactly the declared third-party and core names of
\* the current document, each once; for a non-empty request they are the
\* requested names, unchanged and in the given order.
C10_TargetResolution ==
  last.op = "StopServices" =>
    /\ Len(last.events) = 1
    /\ last.events[1].kind = "engine"
    /\ LET args == last.events[1].args
           skip == IF last.flag THEN 4 ELSE 1
           targets == SubSeq(args, skip + 1, Len(args))
       IN /\ SubSeq(args, 1, skip) = (IF last.flag THEN <<"rm", "-s", "-v", "-f">> ELSE <<"stop">>)
          /\ IF last.names = <<>>
             THEN /\ Range(targets) = DeclaredNames(file)
                  /\ Len(targets) = Cardinality(DeclaredNames(file))
             ELSE targets = last.names

C10_Witness ==
  /\ last.op = "StopServices"
  /\ last.names = <<"mythic_server", "Foo">>
  /\ DeclaredNames(file) = {"foo", "mythic_server"}
  /\ last.events[1].args = <<"stop", "mythic_server", "Foo">>

(* ---------------------------- C11 .. C13: GetLogs ---------------------- *)

LogsDecoded == last.op = "GetLogs" /\ last.res = "ok"

WellFormed(stream) == \E fs \in FrameLists : EncodeFrames(fs) = stream

\* The frames GetLogs printed, as frames: the stream type of the header
\* buffer and the bytes read from the stream for the payload.
DecodedFrames == [i \in DOMAIN last.events |->
                    [typ |-> last.events[i].typ, payload |-> last.events[i].got]]

\* C11: frame decoding in GetLogs never emits a short payload: every frame
\* it outputs carries the `length` payload bytes its header announced, read
\* from the stream (a stream that ends before them is an error, not a frame).
C11_NoShortPayload ==
  LogsDecoded => \A i \in DOMAIN last.events :
                   Len(last.events[i].got) = last.events[i].length

\* C12: the payload length of every frame that is output was taken from a
\* header read as exactly 8 bytes; input that ends inside a header emits no
\* frame and reuses no byte of the previous header.
C12_HeaderComplete ==
  LogsDecoded => \A i \in DOMAIN last.events : last.events[i].hdr = HeaderLen

\* C13: for a well-formed byte sequence, the decoded frames, in order, each
\* with its stream type and full payload, re-encode to the original bytes.
C13_RoundTrip ==
  (LogsDecoded /\ WellFormed(host.logs)) => EncodeFrames(DecodedFrames) = host.logs

(* ---------------------------- C14, C15: TestPorts ---------------------- *)

\* The services of a start set that are published on this machine.
Eligible(services) ==
  { PortChecks[key][2] : key \in { k \in DOMAIN PortChecks :
        /\ PortChecks[k][2] \in services
        /\ host.env[k] \in {PortChecks[k][2], Loopback} } }

\* Some eligible service of the set has its configured port already bound.
PortConflict(services) ==
  \E key \in DOMAIN PortChecks :
    /\ PortChecks[key][2] \in Eligible(services)
    /\ host.env[PortChecks[key][1]] \in host.bound

\* C14: the port precheck is fatal on conflict: when a service of the start
\* set that is published on this machine has its port already bound,
\* TestPorts ends the process, and no engine operation is issued after it.
C14_ConflictFatal ==
  /\ (last.op = "TestPorts" /\ PortConflict(Range(last.names)))
        => (last.res = "fatal" /\ host.exited)
  /\ PortConflict(host.tested) => last.op # "StartServices"

C14_Witness ==
  /\ last.op = "TestPorts"
  /\ PortConflict(Range(last.names))
  /\ Len(last.names) = 3
  /\ host.exited

Attempted == { last.events[i].name : i \in { j \in DOMAIN last.events :
                                              last.events[j].kind = "listen" } }

\* The listeners open after the first k events of the call: a listen that
\* succeeded and has not been closed.
Held(k) ==
  Cardinality({ i \in 1..k : /\ last.events[i].kind = "listen"
                             /\ ~(last.res = "fatal" /\ i = Len(last.events)) })
  - Cardinality({ i \in 1..k : last.events[i].kind = "close" })

OneListenerAtMost ==
  /\ \A k \in 0..Len(last.events) : Held(k) \in {0, 1}
  /\ Held(Len(last.events)) = 0

\* C15 as stated: a bind is attempted for a service if and only if it is in
\* the start set and published on this machine; at most one listener is held
\* at a time and none when the call ends.
C15_BindIff ==
  last.op = "TestPorts" => (Attempted = Eligible(Range(last.names)) /\ OneListenerAtMost)

\* C15, amended: binds are attempted only for such services, and for every
\* one of them when no bind fails; a failed bind is the last thing the call
\* does; at most one listener is held at a time and none when the call ends.
C15_BindIffUntilConflict ==
  last.op = "TestPorts" =>
    /\ Attempted \subseteq Eligible(Range(last.names))
    /\ last.res = "ok" => Attempted = Eligible(Range(last.names))
    /\ last.res = "fatal" =>
         /\ last.events[Len(last.events)].kind = "listen"
         /\ last.events[Len(last.events)].args[1] \in host.bound
    /\ OneListenerAtMost

C15_Witness ==
  /\ last.op = "TestPorts"
  /\ last.res = "ok"
  /\ Len(last.events) = 4
  /\ "foo" \in Range(last.names)
  /\ host.bound # {}

(* ---------------------------- C16, C17: StartServices ------------------ *)

\* The compose arguments of a command that was run, whatever the tool.
CmdArgs(e) == IF e.name = "docker" THEN Tail(e.args) ELSE e.args

IsBuildCmd(e) == Len(CmdArgs(e)) >= 3 /\ SubSeq(CmdArgs(e), 1, 3) = <<"up", "--build", "-d">>

IsPlainCmd(e) == Len(CmdArgs(e)) >= 2 /\ SubSeq(CmdArgs(e), 1, 2) = <<"up", "-d">>

CmdServices(e) ==
  IF IsBuildCmd(e) THEN SubSeq(CmdArgs(e), 4, Len(CmdArgs(e)))
  ELSE SubSeq(CmdArgs(e), 3, Len(CmdArgs(e)))

\* The image <service>:latest existed when the call started.
ImageExisted(service) == ToLower(service) \in last.pre.known

InvocationsOf(service) ==
  { i \in DOMAIN last.events : service \in Range(CmdServices(last.events[i])) }

\* What holds of the invocations that were issued, in every call without
\* the rebuild flag: built services go to a plain start, the others to a
\* build-then-start, and no invocation is empty.
PartitionByImage ==
  \A i \in DOMAIN last.events :
    LET e == last.events[i]
    IN /\ IsBuildCmd(e) \/ IsPlainCmd(e)
       /\ CmdServices(e) # <<>>
       /\ IsPlainCmd(e) => \A s \in Range(CmdServices(e)) : ImageExisted(s)
       /\ IsBuildCmd(e) => \A s \in Range(CmdServices(e)) : ~ImageExisted(s)

SingleRebuild ==
  /\ Len(last.events) = 1
  /\ IsBuildCmd(last.events[1])
  /\ CmdServices(last.events[1]) = last.names

\* C16 as stated: without the rebuild flag every requested service is in
\* exactly one invocation, chosen by image existence, and no invocation is
\* empty; with the flag there is a single build-then-start of all of them.
C16_Partition ==
  last.op = "StartServices" =>
    IF last.flag THEN SingleRebuild
    ELSE /\ PartitionByImage
         /\ \A s \in Range(last.names) : Cardinality(InvocationsOf(s)) = 1

\* C16, amended: the same in a call that returns no error; in every call a
\* requested service is in at most one invocation, chosen by image
\* existence, and a call that fails has issued at most the invocations up
\* to the failed one.
C16_PartitionUnlessFailed ==
  last.op = "StartServices" =>
    /\ last.res = "ok" =>
         IF last.flag THEN SingleRebuild
         ELSE \A s \in Range(last.names) : Cardinality(InvocationsOf(s)) = 1
    /\ ~last.flag => PartitionByImage
    /\ \A s \in Range(last.names) : Cardinality(InvocationsOf(s)) <= 1
    /\ last.flag => Len(last.events) <= 1

C16_Witness ==
  /\ last.op = "StartServices"
  /\ ~last.flag
  /\ last.res = "ok"
  /\ Len(last.events) = 2
  /\ Len(last.names) = 3

\* C17: the standalone compose tool, if found, is run with the arguments
\* unchanged; only if it is not found and the engine CLI is, that CLI is run
\* with the arguments prefixed by the single token `compose`; if neither is
\* found the process ends and no command is run.
C17_ToolSelection ==
  last.op = "StartServices" =>
    /\ \A i \in DOMAIN last.events :
         LET e == last.events[i]
         IN IF "docker-compose" \in host.path
            THEN e.name = "docker-compose" /\ e.args[1] = "up"
            ELSE e.name = "docker" /\ e.args[1] = "compose" /\ e.args[2] = "up"
    /\ last.flag =>
         LET args == <<"up", "--build", "-d">> \o last.names
         IN IF "docker-compose" \in host.path
            THEN last.events = <<Event("run", "docker-compose", args)>>
            ELSE IF "docker" \in host.path
            THEN last.events = <<Event("run", "docker", <<"compose">> \o args)>>
            ELSE last.events = <<>> /\ last.res = "fatal" /\ host.exited
    /\ host.path \cap {"docker-compose", "docker"} = {} => last.events = <<>>

C17_Witness ==
  /\ last.op = "StartServices"
  /\ last.flag
  /\ host.path = {"docker"}
  /\ last.events = <<Event("run", "docker", <<"compose", "up", "--build", "-d", "mythic_server", "foo">>)>>

(* ---------------------------- C18: write failures ---------------------- *)

\* C18: whenever the write of the configuration document fails, the caller
\* of the mutating store operation (SetServiceConfiguration, RemoveServices,
\* SetVolumes) receives an error value, and the process goes on.
C18_WriteErrorReturned ==
  (last.op \in {"SetServiceConfiguration", "RemoveServices", "SetVolumes"} /\ ~last.wrote)
     => last.res = "err"

(* ---------------------------- C19: loading ----------------------------- *)

\* C19: when the file is absent, GenerateRequiredConfig creates an empty
\* document in the executable's directory and the load then succeeds, so
\* that a store operation on a fresh installation does not fail with
\* NotFound; a file that exists but cannot be parsed ends the process.
C19_AbsentIsCreated ==
  /\ (last.op = "GenerateRequiredConfig" /\ last.res = "ok")
        => (ReadInConfigError(host.doc) = "nil" /\ (~last.pre.root => file = EmptyMap))
  /\ (last.op = "GenerateRequiredConfig" /\ host.doc = "corrupt") => last.res = "fatal"
  /\ (last.op \in {"GetVolumes", "SetVolumes"} /\ host.doc = "corrupt") => last.res = "fatal"

(* ---------------------------- C20: the port column --------------------- *)

\* The elements the port column of a container must have: one per published
\* port.
PublishedElements ==
  { IF IsIdentity(host.ports[i]) THEN BarePort(host.ports[i].PrivatePort)
    ELSE PortMapping(host.ports[i]) :
    i \in { j \in DOMAIN host.ports : host.ports[j].PublicPort > 0 } }

\* C20: in every Status row that has a port column (the rows of the core
\* services) the column lists the identity mappings as bare port numbers in
\* ascending order first, then the other mappings as
\* `internal/proto -> host:external`; unpublished ports are omitted.
C20_BareFirst ==
  last.op = "StatusRows" =>
    \A r \in { i \in DOMAIN last.events : last.events[i].kind = "core" } :
      LET col == last.events[r].args
      IN /\ Range(col) = PublishedElements
         /\ \A i, j \in DOMAIN col :
              i < j => /\ col[i].kind = "map" => col[j].kind = "map"
                       /\ (col[i].kind = "bare" /\ col[j].kind = "bare")
                             => col[i].private <= col[j].private

(* ---------------------------- C21: draining ---------------------------- *)

\* C21: whenever two goroutines drain the stdout and stderr of a spawned
\* command (runDocker, and runDockerCompose without a pseudo-terminal), the
\* exit status is collected only after both have finished draining.
C21_DrainedBeforeWait ==
  [][ (~host.run.collected /\ host'.run.collected)
        => (host.run.outWorker = "done" /\ host.run.errWorker = "done") ]_vars

(* ---------------------------- C22: no step after a failure ------------- *)

\* The engine command at position i of the call failed: the container it
\* was to remove is still known to the engine.
FailedAt(i) == last.events[i].kind = "engine" /\ last.events[i].name \in containers

\* C22: in a multi-step operation (here RemoveServices), when an engine call
\* fails the operation ends at that point: no later engine call or document
\* write of the same operation follows the failed call.
C22_EndsAtFailure ==
  last.op = "RemoveServices" =>
    \A i \in DOMAIN last.events : FailedAt(i) => i = Len(last.events)

(* ---------------------------- C23: last writer wins -------------------- *)

\* Invocation p writes the file in this step.
WriteStep(p) ==
  host.inv[p].pc = "read" /\ host'.inv[p].pc = "done" /\ host'.inv[p].wrote

\* The services an invocation's operation is about.
Touched(inv) ==
  IF inv.op = "SetServiceConfiguration" THEN {ToLower(inv.name)} ELSE LowerNames(inv.names)

\* C23: invocations are last-writer-wins with no locking: the file changes
\* only when an invocation writes, and what it writes is the document it
\* read at its start with its own edit, so that everything its operation
\* is not about has the value it read, whatever another invocation has
\* persisted since.
C23_LastWriterWins ==
  [][ /\ file' # file => \E p \in Invocations : WriteStep(p)
      /\ \A p \in Invocations : WriteStep(p) =>
           \A d \in Loaded(file') :
             LET snap == AllSettings(host.inv[p].cfg)
             IN /\ SameAt(snap, d, "volumes")
                /\ \A k \in (DOMAIN ServicesOf(d) \cup DOMAIN ServicesOf(snap))
                              \ Touched(host.inv[p]) :
                     SameAt(ServicesOf(snap), ServicesOf(d), k) ]_vars

\* Invocation 1 has set foo after invocation 2 had read a document without
\* it; invocation 2 has written last and foo is gone.
C23_Witness ==
  /\ host.inv[1].op = "SetServiceConfiguration" /\ host.inv[1].name = "foo"
  /\ host.inv[1].wrote
  /\ host.inv[2].op = "RemoveServices" /\ host.inv[2].names = <<"mythic_server">>
  /\ host.inv[2].wrote /\ host.inv[2].stale
  /\ "foo" \notin DeclaredNames(file)
  /\ last.op = "RemoveServices"

(* ---------------------------- C24: build before start ------------------ *)

\* C24: in StartServices without the rebuild flag the build-then-start
\* invocation comes before the plain start; when the build-then-start
\* fails, StartServices returns that error, the plain start is never issued
\* and the already-built services are left as they were.
C24_BuildFirstFailStops ==
  (last.op = "StartServices" /\ ~last.flag) =>
    /\ \A i, j \in DOMAIN last.events :
         (IsBuildCmd(last.events[i]) /\ IsPlainCmd(last.events[j])) => i < j
    /\ (last.out.failed # 0 /\ IsBuildCmd(last.events[last.out.failed])) =>
         /\ last.res = "err"
         /\ \A j \in DOMAIN last.events : ~IsPlainCmd(last.events[j])
         /\ containers = last.out.known

====
